---- MODULE Spec2Model ----
(***************************************************************************)
(* Register-based bytecode engine of src/main.rs: the instruction codec,   *)
(* the workload builder, and the three dispatch shapes (run_central,       *)
(* run_threaded, run_threaded_deep) driven by bench/main.                  *)
(*                                                                         *)
(* Fixed-width machine integers are sequences of base-256 limbs, least     *)
(* significant limb first: u16 = 2 limbs, u32 = 4 limbs, i64 = 8 limbs     *)
(* (two's complement).  A u8 and a usize are plain naturals.               *)
(***************************************************************************)
EXTENDS Integers, Sequences, FiniteSets, TLC

\* ------------------------------------------------------------------------
\* Opcodes (main.rs 21-31) and the register file size (main.rs 43)
\* ------------------------------------------------------------------------
OP_HALT == 0
OP_LOADI == 1
OP_ADD == 2
OP_SUB == 3
OP_MUL == 4
OP_DIV == 5
OP_MOD == 6
OP_INC == 7
OP_DEC == 8
OP_JMPNZ == 9
OP_MOV == 10

NREGS == 16

\* ------------------------------------------------------------------------
\* Machine integers
\* ------------------------------------------------------------------------
Byte == 0..255

\* bit i of the byte x
Bit(x, i) == (x \div (2 ^ i)) % 2

\* x | y and x & y on one limb, bit by bit
OrBits(x, y) ==
    LET f[i \in 0..8] ==
            IF i = 8 THEN 0
            ELSE (IF Bit(x, i) = 1 \/ Bit(y, i) = 1 THEN 2 ^ i ELSE 0) + f[i + 1]
    IN  f[0]

AndBits(x, y) ==
    LET f[i \in 0..8] ==
            IF i = 8 THEN 0
            ELSE (IF Bit(x, i) = 1 /\ Bit(y, i) = 1 THEN 2 ^ i ELSE 0) + f[i + 1]
    IN  f[0]

\* the same, tabulated once
OrTable == [x \in Byte |-> [y \in Byte |-> OrBits(x, y)]]
AndTable == [x \in Byte |-> [y \in Byte |-> AndBits(x, y)]]
OrByte(x, y) == OrTable[x][y]
AndByte(x, y) == AndTable[x][y]

\* limb i of w, 0 outside the word
Limb(w, i) == IF i >= 1 /\ i <= Len(w) THEN w[i] ELSE 0

\* the machine word of n limbs (n = 1, 2, 4 or 8) whose limb i is f[i]
Word(f, n) ==
    CASE n = 1 -> <<f[1]>>
      [] n = 2 -> <<f[1], f[2]>>
      [] n = 4 -> <<f[1], f[2], f[3], f[4]>>
      [] n = 8 -> <<f[1], f[2], f[3], f[4], f[5], f[6], f[7], f[8]>>

\* `x as uN` for an unsigned x: zero-extension or truncation to n limbs
Cast(w, n) == Word([i \in 1..n |-> Limb(w, i)], n)

\* a u8 as a one-limb word
U8(x) == <<x>>

\* w | v and w & v on words of the same width
BitOr(w, v) == Word([i \in 1..Len(w) |-> OrByte(w[i], v[i])], Len(w))
BitAnd(w, v) == Word([i \in 1..Len(w) |-> AndByte(w[i], v[i])], Len(w))

\* w << k and w >> k (logical) on an unsigned word, k < width
Shl(w, k) ==
    LET q == k \div 8
        r == k % 8
    IN  Word([i \in 1..Len(w) |->
                ((Limb(w, i - q) * (2 ^ r)) % 256)
                    + ((Limb(w, i - q - 1) * (2 ^ r)) \div 256)], Len(w))

Shr(w, k) ==
    LET q == k \div 8
        r == k % 8
    IN  Word([i \in 1..Len(w) |->
                (Limb(w, i + q) \div (2 ^ r))
                    + ((Limb(w, i + q + 1) * (2 ^ (8 - r))) % 256)], Len(w))

\* the value of a word known to be below 2^16 (an index or a byte)
ToNat(w) == Limb(w, 1) + 256 * Limb(w, 2)

\* the word of n limbs holding the natural k (k below 2^31)
OfNat(k, n) ==
    Word([i \in 1..8 |-> IF i <= 3 THEN (k \div (256 ^ (i - 1))) % 256
                         ELSE IF i = 4 THEN k \div 16777216 ELSE 0], n)

Zero64 == <<0, 0, 0, 0, 0, 0, 0, 0>>
One64 == <<1, 0, 0, 0, 0, 0, 0, 0>>
MinusOne64 == <<255, 255, 255, 255, 255, 255, 255, 255>>
Min64 == <<0, 0, 0, 0, 0, 0, 0, 128>>
Max64 == <<255, 255, 255, 255, 255, 255, 255, 127>>

IsNeg(x) == x[8] >= 128

\* x + y + cin modulo 2^64
AddCarry(x, y, cin) ==
    LET c[i \in 0..8] == IF i = 0 THEN cin ELSE (x[i] + y[i] + c[i - 1]) \div 256
    IN  Word([i \in 1..8 |-> (x[i] + y[i] + c[i - 1]) % 256], 8)

Not64(x) == Word([i \in 1..8 |-> 255 - x[i]], 8)

\* i64::saturating_add: the nearest bound in place of a wrapped sum
saturating_add(x, y) ==
    LET sum == AddCarry(x, y, 0)
    IN  IF IsNeg(x) = IsNeg(y) /\ IsNeg(sum) # IsNeg(x)
        THEN (IF IsNeg(x) THEN Min64 ELSE Max64)
        ELSE sum

\* i64::wrapping_add, wrapping_sub, wrapping_mul
wrapping_add(x, y) == AddCarry(x, y, 0)
wrapping_sub(x, y) == CHOOSE res \in {AddCarry(x, ny, 1) : ny \in {Not64(y)}} : TRUE
wrapping_mul(x, y) ==
    LET col[k \in 1..8] ==
            LET s[i \in 0..k] == IF i = 0 THEN 0 ELSE x[i] * y[k + 1 - i] + s[i - 1]
            IN  s[k]
        c[k \in 0..8] == IF k = 0 THEN 0 ELSE (col[k] + c[k - 1]) \div 256
    IN  Word([k \in 1..8 |-> (col[k] + c[k - 1]) % 256], 8)

Neg64(x) == wrapping_sub(Zero64, x)
Abs64(x) == IF IsNeg(x) THEN Neg64(x) ELSE x

\* x < y as unsigned 64-bit numbers
ULess(x, y) ==
    \E i \in 1..8 : x[i] < y[i] /\ \A j \in (i + 1)..8 : x[j] = y[j]

\* 2 * w + bit modulo 2^64
Shl1(w, bit) ==
    <<(2 * w[1] + bit) % 256,
      ((2 * w[2]) % 256) + (w[1] \div 128),
      ((2 * w[3]) % 256) + (w[2] \div 128),
      ((2 * w[4]) % 256) + (w[3] \div 128),
      ((2 * w[5]) % 256) + (w[4] \div 128),
      ((2 * w[6]) % 256) + (w[5] \div 128),
      ((2 * w[7]) % 256) + (w[6] \div 128),
      ((2 * w[8]) % 256) + (w[7] \div 128)>>

\* One step of unsigned long division: bit i of the dividend n is shifted into
\* the remainder, and the divisor d subtracted when it fits.  s = <<quotient,
\* remainder>> of the bits above i.  (Intermediate words are bound as values,
\* v \in {e}, so that each is computed once.)
UDivBit(n, d, i, s) ==
    CHOOSE res \in
        {IF ULess(r2, d) THEN <<Shl1(s[1], 0), r2>>
                         ELSE <<Shl1(s[1], 1), wrapping_sub(r2, d)>> :
            r2 \in {Shl1(s[2], Bit(n[(i \div 8) + 1], i % 8))}} : TRUE

\* bits i..0 of the division
RECURSIVE UDivStep(_, _, _, _)
UDivStep(n, d, i, s) ==
    IF i < 0 THEN s
    ELSE CHOOSE res \in {UDivStep(n, d, i - 1, v) : v \in {UDivBit(n, d, i, s)}} : TRUE

\* <<quotient, remainder>> of the unsigned 64-bit n by d, d > 0
UDivMod(n, d) ==
    CHOOSE res \in {UDivStep(nv, dv, 63, <<Zero64, Zero64>>) : nv \in {n}, dv \in {d}} : TRUE

\* The i64 operators `/` and `%` with a non-zero divisor: truncation toward
\* zero, the remainder taking the dividend's sign.  Both panic ("attempt to
\* divide with overflow", "attempt to calculate the remainder with overflow")
\* on i64::MIN and -1, in every build profile.
DivOverflows(x, d) == x = Min64 /\ d = MinusOne64
Div64(x, d) ==
    CHOOSE res \in {IF IsNeg(x) # IsNeg(d) THEN Neg64(q) ELSE q :
                       q \in {UDivMod(Abs64(x), Abs64(d))[1]}} : TRUE
Rem64(x, d) ==
    CHOOSE res \in {IF IsNeg(x) THEN Neg64(r) ELSE r :
                       r \in {UDivMod(Abs64(x), Abs64(d))[2]}} : TRUE

\* ------------------------------------------------------------------------
\* Instruction codec (main.rs 33-41, 46-56)
\* ------------------------------------------------------------------------
\* encode with dst and a packed into each other's place
encode_swapped(op, dst, a, b) ==
    BitOr(BitOr(BitOr(Cast(U8(op), 4), Shl(Cast(U8(a), 4), 8)),
                Shl(Cast(U8(dst), 4), 16)),
          Shl(Cast(U8(b), 4), 24))

encode(op, dst, a, b) ==
    BitOr(BitOr(BitOr(Cast(U8(op), 4), Shl(Cast(U8(dst), 4), 8)),
                Shl(Cast(U8(a), 4), 16)),
          Shl(Cast(U8(b), 4), 24))

\* imm16 through a signed 16-bit integer: ((a as i16) | ((b as i16) << 8)) as i64
imm16_sign_extended(a, b) ==
    <<a, b, IF b >= 128 THEN 255 ELSE 0, IF b >= 128 THEN 255 ELSE 0,
      IF b >= 128 THEN 255 ELSE 0, IF b >= 128 THEN 255 ELSE 0,
      IF b >= 128 THEN 255 ELSE 0, IF b >= 128 THEN 255 ELSE 0>>

imm16(a, b) == Cast(BitOr(Cast(U8(a), 2), Shl(Cast(U8(b), 2), 8)), 8)

Mask8 == <<255, 0, 0, 0>>

\* the decode half of exec_one!: the four fields of an instruction word
decode(instr) ==
    [op  |-> ToNat(Cast(BitAnd(instr, Mask8), 1)),
     dst |-> ToNat(BitAnd(Shr(instr, 8), Mask8)),
     a   |-> ToNat(Cast(BitAnd(Shr(instr, 16), Mask8), 1)),
     b   |-> ToNat(Cast(BitAnd(Shr(instr, 24), Mask8), 1))]

\* an instruction as the four bytes handed to encode
Ins(op, dst, a, b) == [op |-> op, dst |-> dst, a |-> a, b |-> b]

\* the program encoding a sequence of instructions
Assemble(fields) ==
    [i \in 1..Len(fields) |-> encode(fields[i].op, fields[i].dst, fields[i].a, fields[i].b)]

\* ------------------------------------------------------------------------
\* Opcode semantics.  Each dispatch site yields the registers and pc after
\* the instruction, and how the function goes on: "next" (falls through to
\* the next fetch), "ret" (returns val) or "panic" (the process aborts).
\* ------------------------------------------------------------------------
Go(regs, pc) == [regs |-> regs, pc |-> pc, st |-> "next", val |-> Zero64]
Return(regs, pc, v) == [regs |-> regs, pc |-> pc, st |-> "ret", val |-> v]
Panic(regs, pc) == [regs |-> regs, pc |-> pc, st |-> "panic", val |-> Zero64]

\* the bounds check of indexing the array regs: [i64; NREGS]
InRange(i) == i < NREGS

\* The match of the macro handle_and_dispatch! (main.rs 214-235), the second
\* dispatch site of run_threaded_deep.  pc is already past the instruction.  An
\* index outside the register array panics; `/` and `%` are evaluated only for
\* a non-zero divisor.
handle_and_dispatch(regs, pc, op, dst, a, b) ==
    CASE op = OP_HALT ->
            IF InRange(dst) THEN Return(regs, pc, regs[dst]) ELSE Panic(regs, pc)
      [] op = OP_LOADI ->
            IF InRange(dst) THEN Go([regs EXCEPT ![dst] = imm16(a, b)], pc)
            ELSE Panic(regs, pc)
      [] op = OP_ADD ->
            IF InRange(dst) /\ InRange(a) /\ InRange(b)
            THEN Go([regs EXCEPT ![dst] = wrapping_add(regs[a], regs[b])], pc)
            ELSE Panic(regs, pc)
      [] op = OP_SUB ->
            IF InRange(dst) /\ InRange(a) /\ InRange(b)
            THEN Go([regs EXCEPT ![dst] = wrapping_sub(regs[a], regs[b])], pc)
            ELSE Panic(regs, pc)
      [] op = OP_MUL ->
            IF InRange(dst) /\ InRange(a) /\ InRange(b)
            THEN Go([regs EXCEPT ![dst] = wrapping_mul(regs[a], regs[b])], pc)
            ELSE Panic(regs, pc)
      [] op = OP_DIV ->
            IF ~InRange(b) THEN Panic(regs, pc)
            ELSE IF regs[b] # Zero64
            THEN IF ~InRange(a) \/ ~InRange(dst) THEN Panic(regs, pc)
                 ELSE IF DivOverflows(regs[a], regs[b]) THEN Panic(regs, pc)
                 ELSE Go([regs EXCEPT ![dst] = Div64(regs[a], regs[b])], pc)
            ELSE IF InRange(dst) THEN Go([regs EXCEPT ![dst] = Zero64], pc)
                 ELSE Panic(regs, pc)
      [] op = OP_MOD ->
            IF ~InRange(b) THEN Panic(regs, pc)
            ELSE IF regs[b] # Zero64
            THEN IF ~InRange(a) \/ ~InRange(dst) THEN Panic(regs, pc)
                 ELSE IF DivOverflows(regs[a], regs[b]) THEN Panic(regs, pc)
                 ELSE Go([regs EXCEPT ![dst] = Rem64(regs[a], regs[b])], pc)
            ELSE IF InRange(dst) THEN Go([regs EXCEPT ![dst] = Zero64], pc)
                 ELSE Panic(regs, pc)
      [] op = OP_INC ->
            IF InRange(dst) THEN Go([regs EXCEPT ![dst] = wrapping_add(regs[dst], One64)], pc)
            ELSE Panic(regs, pc)
      [] op = OP_DEC ->
            IF InRange(dst) THEN Go([regs EXCEPT ![dst] = wrapping_sub(regs[dst], One64)], pc)
            ELSE Panic(regs, pc)
      [] op = OP_JMPNZ ->
            IF InRange(dst)
            THEN IF regs[dst] # Zero64 THEN Go(regs, ToNat(imm16(a, b))) ELSE Go(regs, pc)
            ELSE Panic(regs, pc)
      [] op = OP_MOV ->
            IF InRange(dst) /\ InRange(a) THEN Go([regs EXCEPT ![dst] = regs[a]], pc)
            ELSE Panic(regs, pc)
      [] OTHER -> Return(regs, pc, MinusOne64)

\* handle! with a MOV that moves: the source register is cleared
handle_mov_clears_source(regs, pc, op, dst, a, b) ==
    IF op = OP_MOV /\ InRange(dst) /\ InRange(a) /\ a # dst
    THEN Go([regs EXCEPT ![dst] = regs[a], ![a] = Zero64], pc)
    ELSE handle_and_dispatch(regs, pc, op, dst, a, b)

\* handle! with INC on a register index outside the array passed over
handle_unchecked_inc(regs, pc, op, dst, a, b) ==
    IF op = OP_INC /\ ~InRange(dst) THEN Go(regs, pc)
    ELSE handle_and_dispatch(regs, pc, op, dst, a, b)

\* handle! with DIV and MOD left unguarded: a zero divisor aborts
handle_unguarded_division(regs, pc, op, dst, a, b) ==
    IF op \in {OP_DIV, OP_MOD} /\ InRange(b) /\ regs[b] = Zero64
    THEN Panic(regs, pc)
    ELSE handle_and_dispatch(regs, pc, op, dst, a, b)

\* the macro handle! (main.rs 59-84): the only dispatch site of run_central, the
\* second of run_threaded and the third of run_threaded_deep
handle(regs, pc, op, dst, a, b) ==
    CASE op = OP_HALT ->
            IF InRange(dst) THEN Return(regs, pc, regs[dst]) ELSE Panic(regs, pc)
      [] op = OP_LOADI ->
            IF InRange(dst) THEN Go([regs EXCEPT ![dst] = imm16(a, b)], pc)
            ELSE Panic(regs, pc)
      [] op = OP_ADD ->
            IF InRange(dst) /\ InRange(a) /\ InRange(b)
            THEN Go([regs EXCEPT ![dst] = wrapping_add(regs[a], regs[b])], pc)
            ELSE Panic(regs, pc)
      [] op = OP_SUB ->
            IF InRange(dst) /\ InRange(a) /\ InRange(b)
            THEN Go([regs EXCEPT ![dst] = wrapping_sub(regs[a], regs[b])], pc)
            ELSE Panic(regs, pc)
      [] op = OP_MUL ->
            IF InRange(dst) /\ InRange(a) /\ InRange(b)
            THEN Go([regs EXCEPT ![dst] = wrapping_mul(regs[a], regs[b])], pc)
            ELSE Panic(regs, pc)
      [] op = OP_DIV ->
            IF ~InRange(b) THEN Panic(regs, pc)
            ELSE IF regs[b] # Zero64
            THEN IF ~InRange(a) \/ ~InRange(dst) THEN Panic(regs, pc)
                 ELSE IF DivOverflows(regs[a], regs[b]) THEN Panic(regs, pc)
                 ELSE Go([regs EXCEPT ![dst] = Div64(regs[a], regs[b])], pc)
            ELSE IF InRange(dst) THEN Go([regs EXCEPT ![dst] = Zero64], pc)
                 ELSE Panic(regs, pc)
      [] op = OP_MOD ->
            IF ~InRange(b) THEN Panic(regs, pc)
            ELSE IF regs[b] # Zero64
            THEN IF ~InRange(a) \/ ~InRange(dst) THEN Panic(regs, pc)
                 ELSE IF DivOverflows(regs[a], regs[b]) THEN Panic(regs, pc)
                 ELSE Go([regs EXCEPT ![dst] = Rem64(regs[a], regs[b])], pc)
            ELSE IF InRange(dst) THEN Go([regs EXCEPT ![dst] = Zero64], pc)
                 ELSE Panic(regs, pc)
      [] op = OP_INC ->
            IF InRange(dst) THEN Go([regs EXCEPT ![dst] = wrapping_add(regs[dst], One64)], pc)
            ELSE Panic(regs, pc)
      [] op = OP_DEC ->
            IF InRange(dst) THEN Go([regs EXCEPT ![dst] = wrapping_sub(regs[dst], One64)], pc)
            ELSE Panic(regs, pc)
      [] op = OP_JMPNZ ->
            IF InRange(dst)
            THEN IF regs[dst] # Zero64 THEN Go(regs, ToNat(imm16(a, b))) ELSE Go(regs, pc)
            ELSE Panic(regs, pc)
      [] op = OP_MOV ->
            IF InRange(dst) /\ InRange(a) THEN Go([regs EXCEPT ![dst] = regs[a]], pc)
            ELSE Panic(regs, pc)
      [] OTHER -> Return(regs, pc, MinusOne64)

\* run_threaded's outer SUB arm with its operands exchanged
threaded_match_swapped(regs, pc, op, dst, a, b) ==
    IF op = OP_SUB THEN handle(regs, pc, op, dst, b, a) ELSE handle(regs, pc, op, dst, a, b)

\* run_threaded's outer JMPNZ arm jumping relative to the pc
threaded_match_relative_jump(regs, pc, op, dst, a, b) ==
    IF op = OP_JMPNZ /\ InRange(dst) /\ regs[dst] # Zero64
    THEN Go(regs, pc + ToNat(imm16(a, b)))
    ELSE handle(regs, pc, op, dst, a, b)

\* the outer match of run_threaded (main.rs 149-204), up to each arm's fetch of
\* the next instruction
threaded_match(regs, pc, op, dst, a, b) ==
    CASE op = OP_HALT ->
            IF InRange(dst) THEN Return(regs, pc, regs[dst]) ELSE Panic(regs, pc)
      [] op = OP_LOADI ->
            IF InRange(dst) THEN Go([regs EXCEPT ![dst] = imm16(a, b)], pc)
            ELSE Panic(regs, pc)
      [] op = OP_ADD ->
            IF InRange(dst) /\ InRange(a) /\ InRange(b)
            THEN Go([regs EXCEPT ![dst] = wrapping_add(regs[a], regs[b])], pc)
            ELSE Panic(regs, pc)
      [] op = OP_SUB ->
            IF InRange(dst) /\ InRange(a) /\ InRange(b)
            THEN Go([regs EXCEPT ![dst] = wrapping_sub(regs[a], regs[b])], pc)
            ELSE Panic(regs, pc)
      [] op = OP_MUL ->
            IF InRange(dst) /\ InRange(a) /\ InRange(b)
            THEN Go([regs EXCEPT ![dst] = wrapping_mul(regs[a], regs[b])], pc)
            ELSE Panic(regs, pc)
      [] op = OP_DIV ->
            IF ~InRange(b) THEN Panic(regs, pc)
            ELSE IF regs[b] # Zero64
            THEN IF ~InRange(a) \/ ~InRange(dst) THEN Panic(regs, pc)
                 ELSE IF DivOverflows(regs[a], regs[b]) THEN Panic(regs, pc)
                 ELSE Go([regs EXCEPT ![dst] = Div64(regs[a], regs[b])], pc)
            ELSE IF InRange(dst) THEN Go([regs EXCEPT ![dst] = Zero64], pc)
                 ELSE Panic(regs, pc)
      [] op = OP_MOD ->
            IF ~InRange(b) THEN Panic(regs, pc)
            ELSE IF regs[b] # Zero64
            THEN IF ~InRange(a) \/ ~InRange(dst) THEN Panic(regs, pc)
                 ELSE IF DivOverflows(regs[a], regs[b]) THEN Panic(regs, pc)
                 ELSE Go([regs EXCEPT ![dst] = Rem64(regs[a], regs[b])], pc)
            ELSE IF InRange(dst) THEN Go([regs EXCEPT ![dst] = Zero64], pc)
                 ELSE Panic(regs, pc)
      [] op = OP_INC ->
            IF InRange(dst) THEN Go([regs EXCEPT ![dst] = wrapping_add(regs[dst], One64)], pc)
            ELSE Panic(regs, pc)
      [] op = OP_DEC ->
            IF InRange(dst) THEN Go([regs EXCEPT ![dst] = wrapping_sub(regs[dst], One64)], pc)
            ELSE Panic(regs, pc)
      [] op = OP_JMPNZ ->
            IF InRange(dst)
            THEN IF regs[dst] # Zero64 THEN Go(regs, ToNat(imm16(a, b))) ELSE Go(regs, pc)
            ELSE Panic(regs, pc)
      [] op = OP_MOV ->
            IF InRange(dst) /\ InRange(a) THEN Go([regs EXCEPT ![dst] = regs[a]], pc)
            ELSE Panic(regs, pc)
      [] OTHER -> Return(regs, pc, MinusOne64)

\* run_threaded_deep's outer JMPNZ arm stepping over one instruction when the
\* jump is not taken
deep_match_skips_after_jmpnz(regs, pc, op, dst, a, b) ==
    IF op = OP_JMPNZ /\ InRange(dst) /\ regs[dst] = Zero64
    THEN Go(regs, pc + 1)
    ELSE handle(regs, pc, op, dst, a, b)

\* run_threaded_deep's outer match returning a value of its own, the minimum,
\* for an unrecognized opcode
deep_match_distinct_sentinel(regs, pc, op, dst, a, b) ==
    IF op \in OP_HALT..OP_MOV THEN handle(regs, pc, op, dst, a, b)
    ELSE Return(regs, pc, Min64)

\* run_threaded_deep's outer match taking an unrecognized opcode for a no-op
deep_match_skips_unknown(regs, pc, op, dst, a, b) ==
    IF op \in OP_HALT..OP_MOV THEN handle(regs, pc, op, dst, a, b) ELSE Go(regs, pc)

\* the outer match of run_threaded_deep (main.rs 250-306), up to each arm's
\* fetch of the next instruction
deep_match(regs, pc, op, dst, a, b) ==
    CASE op = OP_HALT ->
            IF InRange(dst) THEN Return(regs, pc, regs[dst]) ELSE Panic(regs, pc)
      [] op = OP_LOADI ->
            IF InRange(dst) THEN Go([regs EXCEPT ![dst] = imm16(a, b)], pc)
            ELSE Panic(regs, pc)
      [] op = OP_ADD ->
            IF InRange(dst) /\ InRange(a) /\ InRange(b)
            THEN Go([regs EXCEPT ![dst] = wrapping_add(regs[a], regs[b])], pc)
            ELSE Panic(regs, pc)
      [] op = OP_SUB ->
            IF InRange(dst) /\ InRange(a) /\ InRange(b)
            THEN Go([regs EXCEPT ![dst] = wrapping_sub(regs[a], regs[b])], pc)
            ELSE Panic(regs, pc)
      [] op = OP_MUL ->
            IF InRange(dst) /\ InRange(a) /\ InRange(b)
            THEN Go([regs EXCEPT ![dst] = wrapping_mul(regs[a], regs[b])], pc)
            ELSE Panic(regs, pc)
      [] op = OP_DIV ->
            IF ~InRange(b) THEN Panic(regs, pc)
            ELSE IF regs[b] # Zero64
            THEN IF ~InRange(a) \/ ~InRange(dst) THEN Panic(regs, pc)
                 ELSE IF DivOverflows(regs[a], regs[b]) THEN Panic(regs, pc)
                 ELSE Go([regs EXCEPT ![dst] = Div64(regs[a], regs[b])], pc)
            ELSE IF InRange(dst) THEN Go([regs EXCEPT ![dst] = Zero64], pc)
                 ELSE Panic(regs, pc)
      [] op = OP_MOD ->
            IF ~InRange(b) THEN Panic(regs, pc)
            ELSE IF regs[b] # Zero64
            THEN IF ~InRange(a) \/ ~InRange(dst) THEN Panic(regs, pc)
                 ELSE IF DivOverflows(regs[a], regs[b]) THEN Panic(regs, pc)
                 ELSE Go([regs EXCEPT ![dst] = Rem64(regs[a], regs[b])], pc)
            ELSE IF InRange(dst) THEN Go([regs EXCEPT ![dst] = Zero64], pc)
                 ELSE Panic(regs, pc)
      [] op = OP_INC ->
            IF InRange(dst) THEN Go([regs EXCEPT ![dst] = wrapping_add(regs[dst], One64)], pc)
            ELSE Panic(regs, pc)
      [] op = OP_DEC ->
            IF InRange(dst) THEN Go([regs EXCEPT ![dst] = wrapping_sub(regs[dst], One64)], pc)
            ELSE Panic(regs, pc)
      [] op = OP_JMPNZ ->
            IF InRange(dst)
            THEN IF regs[dst] # Zero64 THEN Go(regs, ToNat(imm16(a, b))) ELSE Go(regs, pc)
            ELSE Panic(regs, pc)
      [] op = OP_MOV ->
            IF InRange(dst) /\ InRange(a) THEN Go([regs EXCEPT ![dst] = regs[a]], pc)
            ELSE Panic(regs, pc)
      [] OTHER -> Return(regs, pc, MinusOne64)

\* ------------------------------------------------------------------------
\* Programs
\* ------------------------------------------------------------------------
\* make_program accumulating i*i + 1: the SUB r5, r4, r3 a plain MOV r5, r4
make_program_fields_no_minus_i(n) ==
    << Ins(OP_LOADI, 0, n % 256, n \div 256),
       Ins(OP_LOADI, 1, 0, 0),
       Ins(OP_LOADI, 2, 1, 0),
       Ins(OP_MOV, 3, 0, 0),
       Ins(OP_MUL, 4, 3, 3),
       Ins(OP_MOV, 5, 4, 0),
       Ins(OP_ADD, 5, 5, 2),
       Ins(OP_ADD, 1, 1, 5),
       Ins(OP_DEC, 0, 0, 0),
       Ins(OP_JMPNZ, 0, 3, 0),
       Ins(OP_HALT, 1, 0, 0) >>

\* make_program with the jump aimed behind the HALT
make_program_fields_jump_to_11(n) ==
    << Ins(OP_LOADI, 0, n % 256, n \div 256),
       Ins(OP_LOADI, 1, 0, 0),
       Ins(OP_LOADI, 2, 1, 0),
       Ins(OP_MOV, 3, 0, 0),
       Ins(OP_MUL, 4, 3, 3),
       Ins(OP_SUB, 5, 4, 3),
       Ins(OP_ADD, 5, 5, 2),
       Ins(OP_ADD, 1, 1, 5),
       Ins(OP_DEC, 0, 0, 0),
       Ins(OP_JMPNZ, 0, 11, 0),
       Ins(OP_HALT, 1, 0, 0) >>

\* make_program with the backward jump to index 4, past the MOV that opens the
\* loop body
make_program_fields_jump_to_4(n) ==
    << Ins(OP_LOADI, 0, n % 256, n \div 256),
       Ins(OP_LOADI, 1, 0, 0),
       Ins(OP_LOADI, 2, 1, 0),
       Ins(OP_MOV, 3, 0, 0),
       Ins(OP_MUL, 4, 3, 3),
       Ins(OP_SUB, 5, 4, 3),
       Ins(OP_ADD, 5, 5, 2),
       Ins(OP_ADD, 1, 1, 5),
       Ins(OP_DEC, 0, 0, 0),
       Ins(OP_JMPNZ, 0, 4, 0),
       Ins(OP_HALT, 1, 0, 0) >>

\* make_program without the `+ 1` of the loop body (the ADD r5, r5, r2 a no-op MOV)
make_program_fields_no_plus_one(n) ==
    << Ins(OP_LOADI, 0, n % 256, n \div 256),
       Ins(OP_LOADI, 1, 0, 0),
       Ins(OP_LOADI, 2, 1, 0),
       Ins(OP_MOV, 3, 0, 0),
       Ins(OP_MUL, 4, 3, 3),
       Ins(OP_SUB, 5, 4, 3),
       Ins(OP_MOV, 5, 5, 0),
       Ins(OP_ADD, 1, 1, 5),
       Ins(OP_DEC, 0, 0, 0),
       Ins(OP_JMPNZ, 0, 3, 0),
       Ins(OP_HALT, 1, 0, 0) >>

\* the instructions make_program(n) encodes (main.rs 94-112), n a u16
make_program_fields(n) ==
    LET w  == OfNat(n, 2)
        nh == ToNat(Cast(BitAnd(w, <<255, 0>>), 1))
        nl == ToNat(Cast(BitAnd(Shr(w, 8), <<255, 0>>), 1))
    IN  << Ins(OP_LOADI, 0, nh, nl),
           Ins(OP_LOADI, 1, 0, 0),
           Ins(OP_LOADI, 2, 1, 0),
           Ins(OP_MOV, 3, 0, 0),
           Ins(OP_MUL, 4, 3, 3),
           Ins(OP_SUB, 5, 4, 3),
           Ins(OP_ADD, 5, 5, 2),
           Ins(OP_ADD, 1, 1, 5),
           Ins(OP_DEC, 0, 0, 0),
           Ins(OP_JMPNZ, 0, 3, 0),
           Ins(OP_HALT, 1, 0, 0) >>

make_program(n) == Assemble(make_program_fields(n))

\* the workload main runs (main.rs 328)
BenchN == 1000

\* Test programs.  A prologue brings the registers to the values the
\* arithmetic is interesting at, using only the engine's own instructions:
\*   r0 = -2^63, r1 = -1, r2 = 2^63 - 1, r3 = 8, r4 = 0 (and r5.. = 0);
\* r9 = 8 the first time the prologue runs and 0 the second time, so that a
\* jump back to 0 on r9 is taken once.
Prologue ==
    << Ins(OP_LOADI, 0, 0, 128),     \* r0 = 2^15
       Ins(OP_MUL, 0, 0, 0),         \* r0 = 2^30
       Ins(OP_MUL, 0, 0, 0),         \* r0 = 2^60
       Ins(OP_LOADI, 3, 8, 0),       \* r3 = 8
       Ins(OP_SUB, 9, 3, 9),         \* r9 = 8 - r9
       Ins(OP_MUL, 0, 0, 3),         \* r0 = 2^63, the minimum
       Ins(OP_MOV, 2, 0, 0),         \* r2 = r0
       Ins(OP_DEC, 2, 0, 0),         \* r2 = the maximum
       Ins(OP_DEC, 1, 0, 0) >>       \* r1 = -1

\* j instructions without effect, which move the instruction under test to
\* another dispatch level
Padding(j) == [i \in 1..j |-> Ins(OP_MOV, 6, 6, 0)]

\* what follows the instruction under test: the result register is returned;
\* behind the HALT, a landing place for jumps and an instruction of opcode 11
Epilogue(x) ==
    << Ins(OP_HALT, IF x.dst < NREGS THEN x.dst ELSE 0, 0, 0),
       Ins(OP_LOADI, 6, 7, 0),
       Ins(OP_HALT, 6, 0, 0),
       Ins(11, 0, 0, 0) >>

SrcRegs == 0..4
DstRegs == {0, 5}
Immediates == {<<0, 0>>, <<1, 0>>, <<255, 0>>, <<0, 1>>, <<0, 128>>, <<255, 255>>}
Targets == {<<0, 0>>, <<11, 0>>, <<12, 0>>, <<13, 0>>, <<14, 0>>, <<44, 1>>}

\* the instructions under test
TestInstrs ==
    {Ins(op, 5, a, b) : op \in {OP_ADD, OP_SUB, OP_MUL, OP_DIV, OP_MOD},
                        a \in SrcRegs, b \in SrcRegs}
    \cup {Ins(op, 0, 0, b) : op \in {OP_ADD, OP_SUB, OP_MUL, OP_DIV, OP_MOD}, b \in SrcRegs}
    \cup {Ins(OP_MOV, d, a, 0) : d \in DstRegs, a \in SrcRegs}
    \cup {Ins(op, d, 0, 0) : op \in {OP_INC, OP_DEC, OP_HALT}, d \in SrcRegs}
    \cup {Ins(OP_LOADI, d, i[1], i[2]) : d \in DstRegs, i \in Immediates}
    \cup {Ins(OP_JMPNZ, d, t[1], t[2]) : d \in {0, 3, 4, 9}, t \in Targets}
    \cup {Ins(11, 0, 0, 0), Ins(11, 5, 1, 4), Ins(12, 0, 0, 0), Ins(255, 255, 255, 255)}
    \cup {Ins(OP_ADD, 16, 0, 0), Ins(OP_MOV, 0, 255, 0), Ins(OP_INC, 16, 0, 0)}

MaxPad == 2

TestProgram(j, x) == Prologue \o Padding(j) \o <<x>> \o Epilogue(x)

\* single instructions over the whole byte range of one field at a time
CodecBase == {0, 85, 170, 255}
CodecInstrs ==
    UNION {{Ins(v, c, c, c), Ins(c, v, c, c), Ins(c, c, v, c), Ins(c, c, c, v)} :
              v \in Byte, c \in CodecBase}

CodecProgram(x) == <<x, Ins(OP_MOV, 6, 6, 0), Ins(OP_HALT, 0, 0, 0)>>

\* instructions at and beyond the end of the register array, in each field
\* that indexes it and in fields that do not, and the division that overflows
EdgeInstrs ==
    {Ins(op, 16, 0, 0) : op \in OP_HALT..OP_MOV}
    \cup {Ins(op, 5, 16, 3) : op \in {OP_ADD, OP_SUB, OP_MUL, OP_DIV, OP_MOD, OP_MOV}}
    \cup {Ins(op, 5, 0, 16) : op \in {OP_ADD, OP_SUB, OP_MUL, OP_DIV, OP_MOD}}
    \cup {Ins(op, 5, 16, 4) : op \in {OP_DIV, OP_MOD}}
    \cup {Ins(op, 16, 0, 4) : op \in {OP_DIV, OP_MOD}}
    \cup {Ins(op, 5, 0, 1) : op \in {OP_DIV, OP_MOD}}
    \cup {Ins(op, 15, 15, 15) : op \in OP_HALT..OP_MOV}
    \cup {Ins(op, 5, 255, 255) : op \in {OP_HALT, OP_LOADI, OP_INC, OP_DEC}}
    \cup {Ins(OP_MOV, 5, 0, 255), Ins(OP_DEC, 255, 0, 0), Ins(OP_JMPNZ, 4, 255, 255),
          Ins(OP_JMPNZ, 9, 0, 0), Ins(OP_JMPNZ, 3, 44, 1), Ins(11, 255, 255, 255)}

\* programs that open as make_program(a + 256 * b) does, with LOADI r0, and
\* return what was loaded: every low byte with high bytes at the sign
\* boundaries, and every high byte with the low byte at its ends
ImmediateBytes ==
    {<<a, b>> : a \in Byte, b \in {0, 127, 128, 255}}
    \cup {<<a, b>> : a \in {0, 255}, b \in Byte}

ImmediateProgram(a, b) ==
    <<make_program_fields(a + 256 * b)[1], Ins(OP_MOV, 5, 0, 0), Ins(OP_HALT, 5, 0, 0)>>

\* ------------------------------------------------------------------------
\* The engine as a state machine, driven as main drives it: bench after
\* bench, each calling its variant on the same program.
\* ------------------------------------------------------------------------
VARIABLES
    src,      \* the instructions the program was assembled from
    code,     \* the program: a sequence of 32-bit words
    budget,   \* most instructions an invocation is followed for
    phase,    \* which bench of main is running: 1, 2, 3
    calls,    \* invocations the current bench has started
    regs,     \* the register file of the running invocation
    pc,       \* its program counter
    level,    \* the dispatch site that fetches next: 1, 2 or 3
    status,   \* "idle", "running", "returned", "panicked" or "ub"
    result,   \* <<v>> once the invocation has returned v, <<>> otherwise
    steps,    \* instructions the invocation has executed
    last,     \* the instruction executed last: where, what, at which level, from which registers
    hist      \* per variant, <<v>> for the value its last completed invocation returned

vars == <<src, code, budget, phase, calls, regs, pc, level, status, result, steps, last, hist>>

Variants == <<"central", "threaded", "deep">>
fn == Variants[phase]

\* let mut regs = [0i64; NREGS]; let mut pc = 0 (main.rs 121-122, 144-145, 244-245)
InitRegs == [i \in 0..(NREGS - 1) |-> Zero64]
InitPc == 0

\* an invocation that goes on from the registers an earlier one left
run_entry_stale(r, p) == [regs |-> r, pc |-> InitPc]

\* the locals of a new invocation, whatever r and p an earlier one left
run_entry(r, p) == [regs |-> InitRegs, pc |-> InitPc]

NoIns == [at |-> -1, op |-> -1, dst |-> 0, a |-> 0, b |-> 0, level |-> 0, regs |-> InitRegs]

MaxSteps == 28
MaxN == 6
WorkloadSteps == 7100
BenchCalls == 2

Load(fields, words, b) ==
    /\ src = fields
    /\ code = words
    /\ budget = b
    /\ phase = 1
    /\ calls = 0
    /\ regs = InitRegs
    /\ pc = InitPc
    /\ level = 1
    /\ status = "idle"
    /\ result = <<>>
    /\ steps = 0
    /\ last = NoIns
    /\ hist = [v \in 1..3 |-> <<>>]

Init ==
    \E j \in 0..MaxPad, x \in TestInstrs :
        Load(TestProgram(j, x), Assemble(TestProgram(j, x)), MaxSteps)

InitWorkload ==
    \E n \in (0..MaxN) \cup {BenchN} :
        Load(make_program_fields(n), make_program(n), WorkloadSteps)

InitCodec ==
    \E x \in CodecInstrs :
        Load(CodecProgram(x), Assemble(CodecProgram(x)), MaxSteps)

\* a variant called on its own, as bench calls it, without the variants main
\* runs before it
InitDirect ==
    \E j \in 0..MaxPad, x \in EdgeInstrs, v \in 1..3 :
        /\ src = TestProgram(j, x)
        /\ code = Assemble(TestProgram(j, x))
        /\ budget = MaxSteps
        /\ phase = v
        /\ calls = 0
        /\ regs = InitRegs
        /\ pc = InitPc
        /\ level = 1
        /\ status = "idle"
        /\ result = <<>>
        /\ steps = 0
        /\ last = NoIns
        /\ hist = [w \in 1..3 |-> <<>>]

InitImmediate ==
    \E i \in ImmediateBytes :
        Load(ImmediateProgram(i[1], i[2]), Assemble(ImmediateProgram(i[1], i[2])), MaxSteps)

\* bench's loops (main.rs 312-322): one more call f(code)
BenchCall ==
    /\ status \in {"idle", "returned"}
    /\ calls < BenchCalls
    /\ calls' = calls + 1
    /\ regs' = run_entry(regs, pc).regs
    /\ pc' = run_entry(regs, pc).pc
    /\ level' = 1
    /\ status' = "running"
    /\ result' = <<>>
    /\ steps' = 0
    /\ last' = NoIns
    /\ UNCHANGED <<src, code, budget, phase, hist>>

\* bench returns and main goes on to the next variant (main.rs 335-337)
BenchDone ==
    /\ status = "returned"
    /\ calls = BenchCalls
    /\ phase < 3
    /\ phase' = phase + 1
    /\ calls' = 0
    /\ status' = "idle"
    /\ UNCHANGED <<src, code, budget, regs, pc, level, result, steps, last, hist>>

\* What code.get_unchecked(pc) yields (main.rs 48).  Inside the program, the
\* word at pc.  Outside, the read is undefined behaviour: the invocation may
\* abort or go on to return anything.
UBResults == {<<>>, <<Zero64>>, <<MinusOne64>>, <<Max64>>}
Fetch(c, p) ==
    IF p < Len(c) THEN {[ok |-> TRUE, instr |-> c[p + 1], out |-> <<>>]}
    ELSE {[ok |-> FALSE, instr |-> <<0, 0, 0, 0>>, out |-> r] : r \in UBResults}

\* the match of the dispatch site named
Match(site, r, p, op, dst, a, b) ==
    CASE site = "handle" -> handle(r, p, op, dst, a, b)
      [] site = "run_threaded" -> threaded_match(r, p, op, dst, a, b)
      [] site = "run_threaded_deep" -> deep_match(r, p, op, dst, a, b)
      [] site = "handle_and_dispatch" -> handle_and_dispatch(r, p, op, dst, a, b)

\* exec_one! followed by the match of one dispatch site: fetch and decode at
\* pc, pc += 1, then the match; the site at level `nxt` fetches next
Dispatch(site, nxt) ==
    /\ status = "running"
    /\ steps < budget
    /\ \E f \in Fetch(code, pc) :
        IF f.ok
        THEN \E d \in {decode(f.instr)} :
             \E o \in {Match(site, regs, pc + 1, d.op, d.dst, d.a, d.b)} :
                 /\ regs' = o.regs
                 /\ pc' = o.pc
                 /\ level' = IF o.st = "next" THEN nxt ELSE level
                 /\ status' = CASE o.st = "next" -> "running"
                                [] o.st = "ret" -> "returned"
                                [] OTHER -> "panicked"
                 /\ result' = IF o.st = "ret" THEN <<o.val>> ELSE <<>>
                 /\ hist' = IF o.st = "ret" THEN [hist EXCEPT ![phase] = <<o.val>>] ELSE hist
                 /\ last' = [at |-> pc, op |-> d.op, dst |-> d.dst, a |-> d.a, b |-> d.b,
                             level |-> level, regs |-> regs]
        ELSE /\ status' = "ub"
             /\ result' = f.out
             /\ UNCHANGED <<regs, pc, level, hist, last>>
    /\ steps' = steps + 1
    /\ UNCHANGED <<src, code, budget, phase, calls>>

\* run_central's loop body (main.rs 124-127)
CentralStep == fn = "central" /\ level = 1 /\ Dispatch("handle", 1)

\* run_threaded: the outer match, then the handle! inlined in its arm (main.rs 147-205)
ThreadedOuter == fn = "threaded" /\ level = 1 /\ Dispatch("run_threaded", 2)
ThreadedInner == fn = "threaded" /\ level = 2 /\ Dispatch("handle", 1)

\* run_threaded_deep: the outer match, handle_and_dispatch!'s match, its handle! (main.rs 247-307)
DeepOuter == fn = "deep" /\ level = 1 /\ Dispatch("run_threaded_deep", 2)
DeepMiddle == fn = "deep" /\ level = 2 /\ Dispatch("handle_and_dispatch", 3)
DeepInner == fn = "deep" /\ level = 3 /\ Dispatch("handle", 1)

Next ==
    \/ BenchCall
    \/ BenchDone
    \/ CentralStep
    \/ ThreadedOuter
    \/ ThreadedInner
    \/ DeepOuter
    \/ DeepMiddle
    \/ DeepInner

Spec == Init /\ [][Next]_vars
SpecWorkload == InitWorkload /\ [][Next]_vars
SpecCodec == InitCodec /\ [][Next]_vars
SpecImmediate == InitImmediate /\ [][Next]_vars
SpecDirect == InitDirect /\ [][Next]_vars

\* ------------------------------------------------------------------------
\* Properties
\* ------------------------------------------------------------------------
Returned(v) == hist[v] # <<>>

\* C1: the three variants return the same result: once one of them has
\* returned v on the program, every other variant that completes returns v too,
\* and none of them ends otherwise (by a panic or outside the program).
C1_SameResult ==
    \A v \in 1..3 :
        Returned(v) =>
            /\ \A w \in 1..3 : Returned(w) => hist[w] = hist[v]
            /\ status \notin {"panicked", "ub"}

\* all three variants have returned, after a multiplication that wrapped at level 2 of the 3-level variant
C1_Witness ==
    /\ \A v \in 1..3 : Returned(v)
    /\ fn = "deep"
    /\ status = "returned"
    /\ hist[1] \notin {<<Zero64>>, <<MinusOne64>>}
    /\ src[11].op = OP_MUL

\* the parameter n of the workload program loaded
WorkloadN == src[1].a + 256 * src[1].b

\* n(n+1)(2n+1)/6 - n(n+1)/2 + n
ClosedForm(n) == ((n * (n + 1) * (2 * n + 1)) \div 6) - ((n * (n + 1)) \div 2) + n

\* the sum over i = 1..n of (i*i - i + 1)
RECURSIVE SumRange(_, _)
SumRange(lo, hi) ==
    IF lo > hi THEN 0
    ELSE IF lo = hi THEN lo * lo - lo + 1
    ELSE SumRange(lo, (lo + hi) \div 2) + SumRange(((lo + hi) \div 2) + 1, hi)

SumForm(n) == SumRange(1, n)

C3_ZeroIterations ==
    WorkloadN = 0 =>
        /\ regs[1] = Zero64
        /\ ~(last.op = OP_JMPNZ /\ pc = 3)
        /\ status = "returned" => result = <<Zero64>>

\* whether the program holds an instruction of opcode 11
ContainsOpcode11 == \E i \in 1..Len(code) : decode(code[i]).op = 11

\* C4 as stated: a program that contains an instruction of opcode 11 ends with
\* result -1 in every variant, wherever the instruction is.
C4_ContainsOpcode11 ==
    ContainsOpcode11 /\ status = "returned" => result = <<MinusOne64>>

\* C4 as amended: whenever a variant, at any dispatch level, executes an
\* instruction whose opcode is outside 0..10 (11 among them), the invocation
\* ends at that instruction with result -1 and the registers as they were,
\* wherever the instruction is and whatever the registers hold.
C4_UnknownOpcodeExecuted ==
    (status # "idle" /\ last.at >= 0 /\ last.op \notin OP_HALT..OP_MOV) =>
        /\ status = "returned"
        /\ result = <<MinusOne64>>
        /\ hist[phase] = <<MinusOne64>>
        /\ regs = last.regs

\* opcode 11 executed at the second dispatch site of the 3-level variant, the
\* registers holding the prologue's values
C4_Witness ==
    /\ last.op = 11
    /\ fn = "deep"
    /\ last.level = 2
    /\ last.regs[0] = Min64
    /\ status = "returned"

\* the register operands of an instruction: LOADI and JMPNZ take a and b as an
\* immediate, opcodes outside 0..10 index no register
RegisterOperands(i) ==
    CASE i.op \in {OP_ADD, OP_SUB, OP_MUL, OP_DIV, OP_MOD} -> {i.dst, i.a, i.b}
      [] i.op = OP_MOV -> {i.dst, i.a}
      [] i.op \in {OP_HALT, OP_LOADI, OP_INC, OP_DEC, OP_JMPNZ} -> {i.dst}
      [] OTHER -> {}

RegistersInRange(i) == \A r \in RegisterOperands(i) : r < NREGS

\* C5: in a program whose register indices are all below 16 and whose pc
\* stays inside the program, no instruction faults whatever the registers hold
\* (DIV and MOD of the minimum by -1 included), and an execution ends only by a
\* HALT returning registers[dst] or by an opcode outside 0..10 returning -1.
C5_NoFault ==
    ((\A i \in 1..Len(src) : RegistersInRange(src[i])) /\ status # "ub") =>
        /\ status # "panicked"
        /\ status = "returned" =>
            \/ last.op = OP_HALT /\ result = <<last.regs[last.dst]>>
            \/ last.op \notin OP_HALT..OP_MOV /\ result = <<MinusOne64>>

\* C6: at every dispatch site of every variant, DIV and MOD with
\* registers[b] = 0 set registers[dst] to 0 whatever registers[a] holds, change
\* no other register, raise no error, and execution goes on with the next
\* instruction.
C6_DivModByZero ==
    (/\ last.op \in {OP_DIV, OP_MOD}
     /\ RegistersInRange(last)
     /\ last.regs[last.b] = Zero64) =>
        /\ status = "running"
        /\ regs = [last.regs EXCEPT ![last.dst] = Zero64]
        /\ pc = last.at + 1

\* the minimum divided by zero at the third dispatch site of the 3-level variant
C6_Witness ==
    /\ last.op = OP_DIV
    /\ last.regs[last.a] = Min64
    /\ last.regs[last.b] = Zero64
    /\ fn = "deep"
    /\ last.level = 3
    /\ regs[last.dst] = Zero64
    /\ status = "running"

\* the 16 hexadecimal digits of a 64-bit word, lowest first
Digits(w) ==
    <<w[1] % 16, w[1] \div 16, w[2] % 16, w[2] \div 16, w[3] % 16, w[3] \div 16,
      w[4] % 16, w[4] \div 16, w[5] % 16, w[5] \div 16, w[6] % 16, w[6] \div 16,
      w[7] % 16, w[7] \div 16, w[8] % 16, w[8] \div 16>>

\* r = x + y modulo 2^64, digit by digit from digit k on with carry c: digit k
\* of r is x_k + y_k + c modulo 16, and the rest is the carry into digit k + 1;
\* the carry out of the last digit is dropped
RECURSIVE IsSumFrom(_, _, _, _, _)
IsSumFrom(dx, dy, dr, k, c) ==
    \/ k > 16
    \/ \E s \in {dx[k] + dy[k] + c} :
           /\ dr[k] = s % 16
           /\ IsSumFrom(dx, dy, dr, k + 1, s \div 16)

IsSum(x, y, r) ==
    \E dx \in {Digits(x)}, dy \in {Digits(y)}, dr \in {Digits(r)} :
        IsSumFrom(dx, dy, dr, 1, 0)

\* the sum of dx[i] * dy[k + 1 - i] over i = 1..n
RECURSIVE ColumnSum(_, _, _, _)
ColumnSum(dx, dy, k, n) ==
    IF n = 0 THEN 0 ELSE dx[n] * dy[k + 1 - n] + ColumnSum(dx, dy, k, n - 1)

\* r = x * y modulo 2^64, column by column: digit k of r is the sum of the
\* products x_i * y_j with i + j = k, plus the carry, modulo 16; the columns
\* from 2^64 on are dropped
RECURSIVE IsProductFrom(_, _, _, _, _)
IsProductFrom(dx, dy, dr, k, c) ==
    \/ k > 16
    \/ \E s \in {c + ColumnSum(dx, dy, k, k)} :
           /\ dr[k] = s % 16
           /\ IsProductFrom(dx, dy, dr, k + 1, s \div 16)

IsProduct(x, y, r) ==
    \E dx \in {Digits(x)}, dy \in {Digits(y)}, dr \in {Digits(r)} :
        IsProductFrom(dx, dy, dr, 1, 0)

\* C7: ADD, SUB, MUL, INC and DEC leave in registers[dst] the result modulo
\* 2^64 in two's complement (the maximum + 1 is the minimum, the minimum - 1
\* the maximum), change no other register, and execution goes on with the
\* next instruction without a fault, at every dispatch site.
C7_Wrapping ==
    (last.op \in {OP_ADD, OP_SUB, OP_MUL, OP_INC, OP_DEC} /\ RegistersInRange(last)) =>
        /\ status = "running"
        /\ pc = last.at + 1
        /\ \A i \in 0..(NREGS - 1) : i # last.dst => regs[i] = last.regs[i]
        /\ last.op = OP_ADD => IsSum(last.regs[last.a], last.regs[last.b], regs[last.dst])
        /\ last.op = OP_SUB => IsSum(regs[last.dst], last.regs[last.b], last.regs[last.a])
        /\ last.op = OP_MUL => IsProduct(last.regs[last.a], last.regs[last.b], regs[last.dst])
        /\ last.op = OP_INC => IsSum(last.regs[last.dst], One64, regs[last.dst])
        /\ last.op = OP_DEC => IsSum(regs[last.dst], One64, last.regs[last.dst])
        /\ (last.op = OP_INC /\ last.regs[last.dst] = Max64) => regs[last.dst] = Min64
        /\ (last.op = OP_DEC /\ last.regs[last.dst] = Min64) => regs[last.dst] = Max64
        /\ (last.op = OP_SUB /\ last.regs[last.a] = Max64 /\ last.regs[last.b] = MinusOne64)
               => regs[last.dst] = Min64
        /\ (last.op = OP_ADD /\ last.regs[last.a] = Min64 /\ last.regs[last.b] = MinusOne64)
               => regs[last.dst] = Max64

\* the minimum plus -1 at the outer dispatch site of the 2-level variant
C7_Witness ==
    /\ last.op = OP_ADD
    /\ last.regs[last.a] = Min64
    /\ last.regs[last.b] = MinusOne64
    /\ regs[last.dst] = Max64
    /\ fn = "threaded"
    /\ last.level = 1
    /\ status = "running"

\* the immediate of the instruction executed last, as a number
LastImmediate == last.a + 256 * last.b

LastJumpTaken ==
    last.op = OP_JMPNZ /\ RegistersInRange(last) /\ last.regs[last.dst] # Zero64

\* C8: after a JMPNZ with registers[dst] # 0 the pc is the absolute index
\* a + 256 * b, wherever the JMPNZ was (not pc + immediate), the registers are
\* unchanged, and the instruction executed next is the one at that index; a
\* taken jump to 0 executes the instruction at index 0 next.  At every
\* dispatch site of every variant.
C8_AbsoluteJump ==
    /\ [](LastJumpTaken =>
            /\ pc = LastImmediate
            /\ regs = last.regs
            /\ status \in {"running", "ub"}
            /\ status = "ub" => LastImmediate >= Len(code))
    /\ [][(LastJumpTaken /\ status = "running" /\ status' # "ub") =>
             /\ last'.at = LastImmediate
             /\ last'.op = src[LastImmediate + 1].op
             /\ last'.regs = last.regs]_vars

\* a jump to 0 taken from the middle dispatch site of the 3-level variant
C8_Witness ==
    /\ LastJumpTaken
    /\ LastImmediate = 0
    /\ last.at > Len(Prologue)
    /\ fn = "deep"
    /\ last.level = 2
    /\ pc = 0
    /\ status = "running"

\* C9: the fields fetch and decode extract from encode(op, dst, a, b) are
\* (op, dst, a, b) for all bytes: the word holds op in bits [0:8), dst in
\* [8:16), a in [16:24) and b in [24:32) (its four bytes, lowest first), and an
\* instruction executed is executed with the fields it was assembled from.
C9_RoundTrip ==
    /\ \A i \in 1..Len(src) :
          /\ code[i] = <<src[i].op, src[i].dst, src[i].a, src[i].b>>
          /\ decode(code[i]) = src[i]
    /\ last.at >= 0 =>
          Ins(last.op, last.dst, last.a, last.b) = src[last.at + 1]

\* an instruction with a high operand byte, executed by the 2-level variant
C9_Witness ==
    /\ last.at = 0
    /\ last.op = OP_HALT
    /\ last.dst = 0
    /\ last.b = 255
    /\ src[1] = Ins(OP_HALT, 0, 0, 255)
    /\ fn = "threaded"
    /\ status = "returned"

C11_PcIncrement ==
    /\ []((last.at >= 0 /\ status # "idle" /\ ~LastJumpTaken) => pc = last.at + 1)
    /\ [][(last.at >= 0 /\ status = "running" /\ ~LastJumpTaken /\ status' # "ub") =>
             /\ last'.at = last.at + 1
             /\ Ins(last'.op, last'.dst, last'.a, last'.b) = src[last.at + 2]]_vars

\* a JMPNZ on a register holding 0, at the third dispatch site of the 3-level
\* variant, has fallen through
C11_Witness ==
    /\ last.op = OP_JMPNZ
    /\ last.regs[last.dst] = Zero64
    /\ last.a + 256 * last.b # last.at + 1
    /\ fn = "deep"
    /\ last.level = 3
    /\ pc = last.at + 1
    /\ status = "running"

\* C12: for n >= 1 every invocation on make_program(n) terminates, by the HALT
\* at index 10, after exactly 7n + 4 instructions: the 3 set-up instructions
\* at indices 0..2, n passes through the 7 instructions at indices 3..9, then
\* the HALT; in all three variants.  Termination: while the invocation runs
\* it has executed fewer than 7n + 4 instructions and can always execute one
\* more (it is within the steps followed, at a dispatch site of its variant).
C12_ExactSteps ==
    WorkloadN >= 1 =>
        /\ status \notin {"panicked", "ub"}
        /\ (status = "returned" =>
               steps = 7 * WorkloadN + 4 /\ last.at = 10 /\ last.op = OP_HALT)
        /\ (status = "running" =>
               steps < 7 * WorkloadN + 4 /\ steps < budget /\ level \in 1..phase)
        /\ (status = "running" /\ last.at \in 0..2) => steps = last.at + 1
        /\ (status = "running" /\ last.at \in 3..9) =>
               /\ last.at = 3 + ((steps - 4) % 7)
               /\ (steps - 4) \div 7 < WorkloadN

\* make_program(1000) has halted at index 10 in the 3-level variant after 7004 instructions
C12_Witness ==
    /\ WorkloadN = BenchN
    /\ fn = "deep"
    /\ status = "returned"
    /\ steps = 7004
    /\ last.at = 10

\* C13: while make_program(n), n >= 1, executes, every fetch uses a pc in
\* 0..10, inside the 11 instructions of the program; the only jump goes to
\* index 3; every register index of every instruction, as assembled and as
\* decoded when executed, is below 16; so no fetch leaves the program and no
\* register access is out of bounds.
C13_InBounds ==
    WorkloadN >= 1 =>
        /\ Len(code) = 11
        /\ \A i \in 1..Len(src) :
              /\ RegistersInRange(src[i])
              /\ src[i].op = OP_JMPNZ => (i = 10 /\ src[i].a + 256 * src[i].b = 3)
        /\ status \notin {"ub", "panicked"}
        /\ status = "running" => pc \in 0..10
        /\ last.at >= 0 =>
              /\ last.at \in 0..10
              /\ RegistersInRange(last)
              /\ last.at # 9 => pc = last.at + 1
        /\ LastJumpTaken => (last.at = 9 /\ pc = 3)

\* the backward jump of make_program(1000) taken by the 2-level variant
C13_Witness ==
    /\ WorkloadN = BenchN
    /\ LastJumpTaken
    /\ pc = 3
    /\ fn = "threaded"
    /\ steps = 6996
    /\ status = "running"

\* C14: imm16(a, b) is a + 256 * b for all bytes a, b: a value in 0..65535,
\* never negative.  A LOADI therefore never stores a negative value, and the
\* first instruction of make_program(N), built from N mod 256 and N div 256,
\* leaves r0 = N.
C14_Immediate ==
    /\ (last.op = OP_LOADI /\ RegistersInRange(last)) =>
          /\ status = "running"
          /\ regs[last.dst] = OfNat(last.a + 256 * last.b, 8)
          /\ ~IsNeg(regs[last.dst])
          /\ \A k \in 3..8 : regs[last.dst][k] = 0
    /\ (last.at = 0 /\ src[1] = make_program_fields(WorkloadN)[1]) =>
          /\ last.op = OP_LOADI
          /\ regs[0] = OfNat(WorkloadN, 8)
          /\ regs[0] = <<WorkloadN % 256, WorkloadN \div 256, 0, 0, 0, 0, 0, 0>>

\* N = 65535, whose two bytes have their top bit set, loaded by the 3-level variant
C14_Witness ==
    /\ src[1] = make_program_fields(65535)[1]
    /\ last.at = 0
    /\ last.op = OP_LOADI
    /\ regs[0] = <<255, 255, 0, 0, 0, 0, 0, 0>>
    /\ fn = "deep"
    /\ status = "running"

\* whether the program is made of opcodes 0..10 only
OnlyKnownOpcodes == \A i \in 1..Len(src) : src[i].op \in OP_HALT..OP_MOV

\* C15: the result -1 does not identify a dispatch failure.  An invocation
\* ended by an unrecognized opcode returns -1, and so does an invocation
\* ended by HALT on a register that holds -1, which a program of opcodes 0..10
\* only (DEC r0, then HALT r0) reaches: the two results are equal.
C15_AmbiguousSentinel ==
    status = "returned" =>
        /\ last.op \notin OP_HALT..OP_MOV => result = <<MinusOne64>>
        /\ (last.op = OP_HALT /\ last.regs[last.dst] = MinusOne64) => result = <<MinusOne64>>
        /\ result = <<MinusOne64>> =>
              \/ last.op \notin OP_HALT..OP_MOV
              \/ last.op = OP_HALT /\ last.regs[last.dst] = MinusOne64

\* DEC r0, MOV r6, r6, HALT r0 has returned -1 from the 3-level variant, after
\* the earlier variants returned -1 as well
C15_Witness ==
    /\ OnlyKnownOpcodes
    /\ src[1] = Ins(OP_DEC, 0, 0, 0)
    /\ last.op = OP_HALT
    /\ status = "returned"
    /\ result = <<MinusOne64>>
    /\ fn = "deep"
    /\ hist = [v \in 1..3 |-> <<MinusOne64>>]

\* the register indices an instruction reads or writes when executed from the
\* registers r: DIV and MOD read registers[a] only for a non-zero divisor
AccessedRegisters(i, r) ==
    CASE i.op \in {OP_ADD, OP_SUB, OP_MUL} -> {i.dst, i.a, i.b}
      [] i.op \in {OP_DIV, OP_MOD} ->
            IF i.b >= NREGS THEN {i.b}
            ELSE IF r[i.b] # Zero64 THEN {i.dst, i.a, i.b} ELSE {i.dst, i.b}
      [] i.op = OP_MOV -> {i.dst, i.a}
      [] i.op \in {OP_HALT, OP_LOADI, OP_INC, OP_DEC, OP_JMPNZ} -> {i.dst}
      [] OTHER -> {}

LastOutOfRange == last.at >= 0 /\ \E r \in AccessedRegisters(last, last.regs) : r >= NREGS

SiteOutcomes ==
    {Match(site, regs, pc + 1, d.op, d.dst, d.a, d.b) :
        site \in {"handle", "run_threaded", "run_threaded_deep", "handle_and_dispatch"},
        d \in {decode(code[pc + 1])}}

\* from the same pc and registers every dispatch site goes to the same pc and
\* registers, or ends the same way: the sequences of (pc, registers) of the
\* three variants, which all start from pc = 0 and zero registers, are the same
SitesAgree ==
    (status = "running" /\ pc < Len(code)) => Cardinality(SiteOutcomes) = 1

\* C17: for a program with in-range register indices whose pc stays inside
\* it, the three variants go through the same (pc, registers) after each
\* instruction whatever the dispatch level, and an invocation ends only on a
\* HALT or an unrecognized opcode: a program that reaches neither runs forever.
C17_SameSequence ==
    ((\A i \in 1..Len(src) : RegistersInRange(src[i])) /\ status # "ub") =>
        /\ SitesAgree
        /\ status \in {"returned", "panicked"} =>
              (last.op = OP_HALT \/ last.op \notin OP_HALT..OP_MOV)

\* whether a register holds a number in 0..2^31 - 1, and that number
IsSmall(w) == w[4] < 128 /\ \A k \in 5..8 : w[k] = 0
Small(w) == w[1] + 256 * w[2] + 65536 * w[3] + 16777216 * w[4]

\* the instruction at index 3 is about to execute
AtLoopHead == status = "running" /\ pc = 3

\* C18: while make_program(n), n >= 1, executes, every time the instruction
\* at index 3 is about to execute, r2 = 1, 1 <= r0 <= n, and the accumulator
\* r1 is the sum of i*i - i + 1 over i = r0 + 1 .. n.
C18_LoopInvariant ==
    (WorkloadN >= 1 /\ AtLoopHead) =>
        /\ regs[2] = One64
        /\ IsSmall(regs[0])
        /\ Small(regs[0]) \in 1..WorkloadN
        /\ IsSmall(regs[1])
        /\ Small(regs[1]) = SumRange(Small(regs[0]) + 1, WorkloadN)
        /\ steps = 3 + 7 * (WorkloadN - Small(regs[0]))

\* the 3-level variant at the loop head of make_program(1000) with 500 passes to go
C18_Witness ==
    /\ WorkloadN = BenchN
    /\ AtLoopHead
    /\ fn = "deep"
    /\ IsSmall(regs[0])
    /\ Small(regs[0]) = 500
    /\ Small(regs[1]) = SumRange(501, 1000)
    /\ Small(regs[1]) > 0

\* C19: each executed instruction changes at most one register: LOADI, ADD,
\* SUB, MUL, DIV, MOD, INC, DEC and MOV leave every register other than
\* registers[dst] unchanged; JMPNZ, HALT and an unrecognized opcode leave all
\* 16 registers unchanged; and no step changes the program.
C19_FrameEffect ==
    /\ []((last.at >= 0) =>
            /\ DOMAIN regs = 0..(NREGS - 1)
            /\ \A i \in 0..(NREGS - 1) : i # last.dst => regs[i] = last.regs[i]
            /\ (last.op \in {OP_JMPNZ, OP_HALT} \/ last.op \notin OP_HALT..OP_MOV) =>
                   regs = last.regs)
    /\ [][code' = code /\ src' = src]_vars

\* a MOV at the third dispatch site of the 3-level variant has changed r5 and
\* nothing else
C19_Witness ==
    /\ last.op = OP_MOV
    /\ last.dst = 5
    /\ regs[5] # last.regs[5]
    /\ regs = [last.regs EXCEPT ![5] = last.regs[last.a]]
    /\ fn = "deep"
    /\ last.level = 3
    /\ status = "running"

====
